---- MODULE Spec2Model ----
(***************************************************************************)
(* Real-time presence and call-session coordinator of e-health-backend:    *)
(* src/sockets/callHandlers.js, first revision in the file (lines 1-352).  *)
(*                                                                         *)
(* Every socket.io handler is a JavaScript async function: it runs without *)
(* interruption up to its next `await`, where it is suspended until the    *)
(* store call completes.  A suspended handler is a task; a store call is   *)
(* executed by the store at some moment between its issue and the resume   *)
(* of the handler (DbStep), so store calls of different handlers may be    *)
(* executed in any order.                                                  *)
(***************************************************************************)
EXTENDS Integers, Sequences, FiniteSets, Bags, TLC

\* ----------------------------------------------------------------- bounds
MaxEvents == 4        \* client events and clock advances per run of Spec
MaxEventsPair == 5    \* the same, per run of SpecPair
MaxEventsTrio == 5    \* the same, per run of SpecTrio
MaxEventsRL == 11     \* the same, per run of SpecRL
MaxEventsGate == 7    \* the same, per run of SpecGate
MaxEventsAdmin == 6   \* the same, per run of SpecAdmin
MaxEventsAuth == 4    \* the same, per run of SpecAuth
MaxEventsRun == 7     \* the same, per run of SpecRun
MaxEventsFail == 5    \* the same, per run of SpecFail
MaxEventsLimit == 9   \* the same, per run of SpecLimit
MaxEventsEnd == 6     \* the same, per run of SpecEnd
MaxEventsMulti == 4   \* the same, per run of SpecMulti
MaxEventsTable == 5   \* the same, per run of SpecTable

\* ------------------------------------------------------ program constants
windowMs == 1000
maxCalls == 5

\* the clock advances by a whole window in Spec and SpecPair, by half a
\* window in SpecRL
TickMs == windowMs
TickMsRL == windowMs \div 2

\* --------------------------------------------------------------- universe
Users == {"A", "D", "T"}
Sockets == {"s1", "s2", "s3", "s4"}
Null == "null"
NoCall == 0
BadId == "bad"            \* a calleeId that is not a 24 character string

\* socket.user, attached by the authentication middleware
SockUser(s) ==
  CASE s = "s1" -> "A"
    [] s = "s2" -> "D"
    [] s = "s3" -> "T"
    [] OTHER -> "D"

Role(u) ==
  CASE u = "A" -> "employee"
    [] u = "D" -> "doctor"
    [] OTHER -> "admin"

VARIABLES
  now,          \* Date.now(), in ms
  nEvents,      \* client events handled so far
  activeUsers,  \* Map socket.id => userData: the registered sockets
  closed,       \* sockets that have disconnected (a socket t is never reused)
  activeCalls,  \* Map callId => callInfo: the keys, in insertion order
  callInfo,     \* the callInfo objects ever created, by callId
  rateLimiter,  \* Map "socketId:event" => {count, start}
  users,        \* User collection: per user t, isOnline and socketId
  calls,        \* Call collection: per call t, status, endTime, duration
  nextCallId,   \* call ids handed out by `new Call`
  tasks,        \* the suspended handlers, a bag
  inbox,        \* per socket, the events delivered to its client
  callLog,      \* per call id, the statuses the Call collection has recorded, in order
  orphaned,     \* <<callId, socket>>: the session was live when its party's socket disconnected
  audit,        \* whether the rate limiter's decisions are logged
  rlLog         \* per rate-limiter key, the decisions logged: time, allowed, fresh

vars == <<now, nEvents, activeUsers, closed, activeCalls, callInfo,
          rateLimiter, users, calls, nextCallId, tasks, inbox, callLog, orphaned, audit, rlLog>>

\* ---------------------------------------------------------------- helpers
Msg(ev, callId, x) == [ev |-> ev, callId |-> callId, x |-> x]

RECURSIVE SeqToSet(_)
SeqToSet(q) == IF q = <<>> THEN {} ELSE {Head(q)} \cup SeqToSet(Tail(q))

RemoveFromSeq(q, c) == SelectSeq(q, LAMBDA e: e # c)

\* io.to(socketId).emit / socket.emit: delivered to the sockets of `targets`
\* that are connected
EmitTo(inb, targets, m) ==
  [x \in Sockets |-> IF x \in targets /\ x \in activeUsers
                       THEN Append(inb[x], m) ELSE inb[x]]

\* the same, with the registry as it is after this step's own change
EmitToReg(inb, reg, targets, m) ==
  [x \in Sockets |-> IF x \in targets /\ x \in reg
                       THEN Append(inb[x], m) ELSE inb[x]]

\* the role left out: every registered socket taken for an admin's
AdminSockets_Everyone(reg) == reg

AdminSockets(reg) == {x \in reg : Role(SockUser(x)) = "admin"}
RoleSockets(reg, role) == {x \in reg : Role(SockUser(x)) = role}

broadcastToAdmins(inb, reg, m) == EmitToReg(inb, reg, AdminSockets(reg), m)
\* the role left out: the event goes to every registered socket
broadcastToRole_AnyRole(inb, reg, role, m) == EmitToReg(inb, reg, reg, m)

broadcastToRole(inb, reg, role, m) == EmitToReg(inb, reg, RoleSockets(reg, role), m)

NotifyRole(u) ==
  IF Role(u) = "doctor" THEN "employee"
  ELSE IF Role(u) = "employee" THEN "doctor" ELSE Null

\* presence update to the complementary role and to the admins
updateUserAvailability(inb, reg, s) ==
  LET u == SockUser(s)
      i1 == IF NotifyRole(u) # Null
              THEN broadcastToRole(inb, reg, NotifyRole(u), Msg("user-connected", NoCall, u))
              ELSE inb
  IN broadcastToAdmins(i1, reg, Msg("user-status-update", NoCall, "online"))

\* -------------------------------------------------------------- rate limiter
RateKey(s, ev) == <<s, ev>>

RateRecord(s, ev) ==
  IF RateKey(s, ev) \in DOMAIN rateLimiter
    THEN rateLimiter[RateKey(s, ev)]
    ELSE [count |-> 0, start |-> now]

RateFresh(s, ev) == now - RateRecord(s, ev).start > windowMs

\* the limit compared with <= : one event too many passes in each window
checkRateLimit_Inclusive(s, ev) ==
  IF RateFresh(s, ev) THEN TRUE ELSE RateRecord(s, ev).count <= maxCalls

\* the value checkRateLimit returns
checkRateLimit(s, ev) ==
  IF RateFresh(s, ev) THEN TRUE ELSE RateRecord(s, ev).count < maxCalls

\* the refused events counted too
rateLimiterAfter_CountsRefused(s, ev) ==
  LET key == RateKey(s, ev)
      record == RateRecord(s, ev)
      put(r) == [k \in DOMAIN rateLimiter \cup {key} |->
                   IF k = key THEN r ELSE rateLimiter[k]]
  IN IF RateFresh(s, ev) THEN put([count |-> 1, start |-> now])
     ELSE put([count |-> record.count + 1, start |-> record.start])

\* the rateLimiter map after checkRateLimit
rateLimiterAfter(s, ev) ==
  LET key == RateKey(s, ev)
      record == RateRecord(s, ev)
      put(r) == [k \in DOMAIN rateLimiter \cup {key} |->
                   IF k = key THEN r ELSE rateLimiter[k]]
  IN IF RateFresh(s, ev) THEN put([count |-> 1, start |-> now])
     ELSE IF record.count >= maxCalls THEN rateLimiter
     ELSE put([count |-> record.count + 1, start |-> record.start])

\* the log entry of a decision: when, the answer, and whether the event
\* opened a window (no record yet, or the reset branch)
rlLogAfter(s, ev) ==
  LET key == RateKey(s, ev)
      old == IF key \in DOMAIN rlLog THEN rlLog[key] ELSE <<>>
      e == [t |-> now, ok |-> checkRateLimit(s, ev),
            fresh |-> key \notin DOMAIN rateLimiter \/ RateFresh(s, ev)]
  IN [k \in DOMAIN rlLog \cup {key} |-> IF k = key THEN Append(old, e) ELSE rlLog[k]]

\* the gate at the head of a rate-limited handler
RateGate(s, ev) ==
  /\ rateLimiter' = rateLimiterAfter(s, ev)
  /\ rlLog' = IF audit THEN rlLogAfter(s, ev) ELSE rlLog
  /\ UNCHANGED audit

\* ------------------------------------------------------------------ tasks
NoCallee == [exists |-> FALSE, isOnline |-> FALSE, socketId |-> Null]

Task(kind, s) ==
  [kind |-> kind, s |-> s, phase |-> 1, pc |-> "db",
   calleeId |-> Null, callee |-> NoCallee, callId |-> NoCall,
   upd |-> [status |-> Null, endTime |-> -1, duration |-> -1],
   pos |-> 0]

Spawn(t) == tasks' = tasks (+) SetToBag({t})

Finish(t) == tasks' = tasks (-) SetToBag({t})

Park(t, t2) == tasks' = (tasks (-) SetToBag({t})) (+) SetToBag({t2})

\* ------------------------------------------------------------------- Init
Init ==
  /\ now = 0
  /\ nEvents = 0
  /\ activeUsers = {}
  /\ closed = {}
  /\ activeCalls = <<>>
  /\ callInfo = <<>>
  /\ rateLimiter = <<>>
  /\ users = [u \in Users |-> [isOnline |-> FALSE, socketId |-> Null]]
  /\ calls = <<>>
  /\ nextCallId = 1
  /\ tasks = EmptyBag
  /\ inbox = [s \in Sockets |-> <<>>]
  /\ callLog = <<>>
  /\ orphaned = {}
  /\ audit = FALSE
  /\ rlLog = <<>>

\* ------------------------------------------------------------------ clock
Tick(dt) ==
  /\ now' = now + dt
  /\ nEvents' = nEvents + 1
  /\ UNCHANGED <<activeUsers, closed, activeCalls, callInfo,
                 rateLimiter, users, calls, nextCallId, tasks, inbox, callLog, orphaned, audit, rlLog>>

\* ---------------------------------------------------------------- connect
\* io.on('connection'): register, issue the presence write without awaiting
\* it, send your-info, notify the complementary role and the admins
Connect(s) ==
  /\ s \notin activeUsers
  /\ s \notin closed
  /\ activeUsers' = activeUsers \cup {s}
  /\ Spawn(Task("connect", s))
  /\ inbox' = updateUserAvailability(
                EmitToReg(inbox, activeUsers', {s}, Msg("your-info", NoCall, SockUser(s))),
                activeUsers', s)
  /\ nEvents' = nEvents + 1
  /\ UNCHANGED <<now, closed, activeCalls, callInfo, rateLimiter, users, calls,
                 nextCallId, callLog, orphaned, audit, rlLog>>

\* the presence write of connect is not awaited: nothing resumes after it
DbSetOnline(t) ==
  /\ BagIn(t, tasks)
  /\ t.kind = "connect"
  /\ t.pc = "db"
  /\ users' = [users EXCEPT ![SockUser(t.s)] =
                 [isOnline |-> TRUE, socketId |-> t.s]]
  /\ Finish(t)
  /\ UNCHANGED <<now, nEvents, activeUsers, closed, activeCalls, callInfo,
                 rateLimiter, calls, nextCallId, inbox, callLog, orphaned, audit, rlLog>>

\* ------------------------------------------------------------ store calls
\* User.findById(calleeId), executed by the store
FindById(calleeId) ==
  IF calleeId \in Users
    THEN [exists |-> TRUE, isOnline |-> users[calleeId].isOnline,
          socketId |-> users[calleeId].socketId]
    ELSE NoCallee

DbFindCallee(t) ==
  /\ BagIn(t, tasks)
  /\ t.kind = "initiate"
  /\ t.phase = 1
  /\ t.pc = "db"
  /\ Park(t, [t EXCEPT !.pc = "ready", !.callee = FindById(t.calleeId)])
  /\ UNCHANGED <<now, nEvents, activeUsers, closed, activeCalls, callInfo,
                 rateLimiter, users, calls, nextCallId, inbox, callLog, orphaned, audit, rlLog>>

\* call.save(), executed by the store
DbSaveCall(t) ==
  /\ BagIn(t, tasks)
  /\ t.kind = "initiate"
  /\ t.phase = 2
  /\ t.pc = "db"
  /\ calls' = [c \in DOMAIN calls \cup {t.callId} |->
                 IF c = t.callId
                   THEN [status |-> "initiated", endTime |-> -1, duration |-> -1]
                   ELSE calls[c]]
  /\ callLog' = [c \in DOMAIN callLog \cup {t.callId} |->
                   IF c = t.callId THEN <<"initiated">> ELSE callLog[c]]
  /\ Park(t, [t EXCEPT !.pc = "ready"])
  /\ UNCHANGED <<now, nEvents, activeUsers, closed, activeCalls, callInfo,
                 rateLimiter, users, nextCallId, inbox, orphaned, audit, rlLog>>

\* the document after Call.findByIdAndUpdate(callId, upd): only the fields
\* the update names are set
UpdatedCall(doc, upd) ==
  [status |-> upd.status,
   endTime |-> IF upd.endTime # -1 THEN upd.endTime ELSE doc.endTime,
   duration |-> IF upd.duration # -1 THEN upd.duration ELSE doc.duration]

\* Call.findByIdAndUpdate, executed by the store
DbUpdateCall(t) ==
  /\ BagIn(t, tasks)
  /\ \/ t.kind \in {"accept", "reject", "end"}
     \/ t.kind = "disconnect" /\ t.phase = 2
  /\ t.pc = "db"
  /\ calls' = IF t.callId \in DOMAIN calls
                THEN [calls EXCEPT ![t.callId] = UpdatedCall(@, t.upd)]
                ELSE calls
  /\ callLog' = IF t.callId \in DOMAIN callLog
                  THEN [callLog EXCEPT ![t.callId] = Append(@, t.upd.status)]
                  ELSE callLog
  /\ Park(t, [t EXCEPT !.pc = "ready"])
  /\ UNCHANGED <<now, nEvents, activeUsers, closed, activeCalls, callInfo,
                 rateLimiter, users, nextCallId, inbox, orphaned, audit, rlLog>>

\* User.findByIdAndUpdate(user.id, {isOnline: false, socketId: null}) of disconnect
DbSetOffline(t) ==
  /\ BagIn(t, tasks)
  /\ t.kind = "disconnect"
  /\ t.phase = 1
  /\ t.pc = "db"
  /\ users' = [users EXCEPT ![SockUser(t.s)] =
                 [isOnline |-> FALSE, socketId |-> Null]]
  /\ Park(t, [t EXCEPT !.pc = "ready"])
  /\ UNCHANGED <<now, nEvents, activeUsers, closed, activeCalls, callInfo,
                 rateLimiter, calls, nextCallId, inbox, callLog, orphaned, audit, rlLog>>

\* ---------------------------------------------------------- failing writes
\* Call.findByIdAndUpdate rejects: the store is left as it is and the awaiting
\* handler resumes in its catch block
DbUpdateCallFails(t) ==
  /\ BagIn(t, tasks)
  /\ \/ t.kind \in {"accept", "reject", "end"}
     \/ t.kind = "disconnect" /\ t.phase = 2
  /\ t.pc = "db"
  /\ Park(t, [t EXCEPT !.pc = "failed"])
  /\ UNCHANGED <<now, nEvents, activeUsers, closed, activeCalls, callInfo,
                 rateLimiter, users, calls, nextCallId, inbox, callLog, orphaned, audit, rlLog>>

\* the presence write of disconnect rejects
DbSetOfflineFails(t) ==
  /\ BagIn(t, tasks)
  /\ t.kind = "disconnect"
  /\ t.phase = 1
  /\ t.pc = "db"
  /\ Park(t, [t EXCEPT !.pc = "failed"])
  /\ UNCHANGED <<now, nEvents, activeUsers, closed, activeCalls, callInfo,
                 rateLimiter, users, calls, nextCallId, inbox, callLog, orphaned, audit, rlLog>>

\* the catch block of accept-call, reject-call, end-call and disconnect:
\* console.error, and the handler is over
HandlerCatch(t) ==
  /\ BagIn(t, tasks)
  /\ t.kind \in {"accept", "reject", "end", "disconnect"}
  /\ t.pc = "failed"
  /\ Finish(t)
  /\ UNCHANGED <<now, nEvents, activeUsers, closed, activeCalls, callInfo,
                 rateLimiter, users, calls, nextCallId, inbox, callLog, orphaned, audit, rlLog>>

\* ---------------------------------------------------------- the live table
LiveIds == SeqToSet(activeCalls)
LiveCalls == {callInfo[c] : c \in LiveIds}

CallError(inb, s, text) == EmitTo(inb, {s}, Msg("call-error", NoCall, text))

\* ---------------------------------------------------------- initiate-call
\* the self-call screen left out
IsSelfCall_Skipped(s, calleeId) == FALSE

IsSelfCall(s, calleeId) == calleeId = SockUser(s)

CalleeOffline(callee) == ~callee.exists \/ ~callee.isOnline \/ callee.socketId = Null

\* the duplicate screen: a live call between the two users, in either direction
HasDuplicate(u, calleeId) ==
  \E call \in LiveCalls :
    \/ call.caller.id = u /\ call.callee.id = calleeId /\ call.status = "initiated"
    \/ call.caller.id = calleeId /\ call.callee.id = u /\ call.status = "initiated"

\* the handler up to its first await
InitiateCall(s, calleeId) ==
  /\ s \in activeUsers
  /\ RateGate(s, "initiate-call")
  /\ nEvents' = nEvents + 1
  /\ IF ~checkRateLimit(s, "initiate-call")
       THEN /\ inbox' = CallError(inbox, s, "Rate limit exceeded")
            /\ UNCHANGED tasks
     ELSE IF calleeId = BadId
       THEN /\ inbox' = CallError(inbox, s, "Invalid callee ID")
            /\ UNCHANGED tasks
     ELSE IF IsSelfCall(s, calleeId)
       THEN /\ inbox' = CallError(inbox, s, "Cannot call yourself")
            /\ UNCHANGED tasks
     ELSE /\ Spawn([Task("initiate", s) EXCEPT !.calleeId = calleeId])
          /\ UNCHANGED inbox
  /\ UNCHANGED <<now, activeUsers, closed, activeCalls, callInfo, users, calls,
                 nextCallId,
                 callLog, orphaned>>

\* resumed after User.findById: the offline and duplicate screens, new Call,
\* and the issue of call.save()
InitiateCheck(t) ==
  /\ BagIn(t, tasks)
  /\ t.kind = "initiate"
  /\ t.phase = 1
  /\ t.pc = "ready"
  /\ IF CalleeOffline(t.callee)
       THEN /\ inbox' = CallError(inbox, t.s, "User is offline")
            /\ Finish(t)
            /\ UNCHANGED nextCallId
     ELSE IF HasDuplicate(SockUser(t.s), t.calleeId)
       THEN /\ inbox' = CallError(inbox, t.s, "Call already in progress")
            /\ Finish(t)
            /\ UNCHANGED nextCallId
     ELSE /\ Park(t, [t EXCEPT !.phase = 2, !.pc = "db", !.callId = nextCallId])
          /\ nextCallId' = nextCallId + 1
          /\ UNCHANGED inbox
  /\ UNCHANGED <<now, nEvents, activeUsers, closed, activeCalls, callInfo,
                 rateLimiter, users, calls, callLog, orphaned, audit, rlLog>>

\* the caller's socket stored as the callee's
NewCallInfo_CalleeSocketMixup(t) ==
  [callId |-> t.callId,
   caller |-> [id |-> SockUser(t.s), socketId |-> t.s],
   callee |-> [id |-> t.calleeId, socketId |-> t.s],
   status |-> "initiated",
   startTime |-> now,
   ord |-> Cardinality(DOMAIN callInfo) + 1]

\* the callInfo object of lines 130-136
NewCallInfo(t) ==
  [callId |-> t.callId,
   caller |-> [id |-> SockUser(t.s), socketId |-> t.s],
   callee |-> [id |-> t.calleeId, socketId |-> t.callee.socketId],
   status |-> "initiated",
   startTime |-> now,
   ord |-> Cardinality(DOMAIN callInfo) + 1]

\* resumed after call.save(): the session enters the table and is announced
InitiateFinish(t) ==
  /\ BagIn(t, tasks)
  /\ t.kind = "initiate"
  /\ t.phase = 2
  /\ t.pc = "ready"
  /\ callInfo' = [c \in DOMAIN callInfo \cup {t.callId} |->
                    IF c = t.callId THEN NewCallInfo(t) ELSE callInfo[c]]
  /\ activeCalls' = Append(activeCalls, t.callId)
  /\ inbox' = broadcastToAdmins(
                EmitTo(inbox, {t.callee.socketId},
                       Msg("incoming-call", t.callId, SockUser(t.s))),
                activeUsers, Msg("new-call", t.callId, "initiated"))
  /\ Finish(t)
  /\ UNCHANGED <<now, nEvents, activeUsers, closed, rateLimiter, users,
                 calls, nextCallId, callLog, orphaned, audit, rlLog>>

\* ------------------------------------------------------------ accept-call
\* either party taken for the callee
IsCallee_EitherParty(call, u) == u \in {call.caller.id, call.callee.id}

\* only the callee may accept or reject
IsCallee(call, u) == call.callee.id = u

AcceptCall(s, callId) ==
  /\ s \in activeUsers
  /\ RateGate(s, "accept-call")
  /\ nEvents' = nEvents + 1
  /\ IF ~checkRateLimit(s, "accept-call")
       THEN /\ inbox' = CallError(inbox, s, "Rate limit exceeded")
            /\ UNCHANGED <<tasks, callInfo>>
     ELSE IF callId = NoCall
       THEN /\ inbox' = CallError(inbox, s, "Invalid call ID")
            /\ UNCHANGED <<tasks, callInfo>>
     ELSE IF callId \notin LiveIds
       THEN /\ inbox' = CallError(inbox, s, "Call not found")
            /\ UNCHANGED <<tasks, callInfo>>
     ELSE IF ~IsCallee(callInfo[callId], SockUser(s))
       THEN /\ inbox' = CallError(inbox, s, "Not authorized to accept this call")
            /\ UNCHANGED <<tasks, callInfo>>
     ELSE /\ callInfo' = [callInfo EXCEPT ![callId].status = "accepted"]
          /\ Spawn([Task("accept", s) EXCEPT !.callId = callId,
                                             !.upd.status = "accepted"])
          /\ UNCHANGED inbox
  /\ UNCHANGED <<now, activeUsers, closed, activeCalls, users, calls, nextCallId,
                 callLog, orphaned>>

\* resumed after Call.findByIdAndUpdate(callId, {status: 'accepted'})
AcceptFinish(t) ==
  /\ BagIn(t, tasks)
  /\ t.kind = "accept"
  /\ t.pc = "ready"
  /\ LET call == callInfo[t.callId]
         i1 == EmitTo(inbox, {call.caller.socketId}, Msg("call-accepted", call.callId, ""))
         i2 == EmitTo(i1, {call.callee.socketId}, Msg("call-accepted", call.callId, ""))
     IN inbox' = broadcastToAdmins(i2, activeUsers,
                                   Msg("call-status-update", call.callId, call.status))
  /\ Finish(t)
  /\ UNCHANGED <<now, nEvents, activeUsers, closed, activeCalls, callInfo,
                 rateLimiter, users, calls, nextCallId, callLog, orphaned, audit, rlLog>>

\* ------------------------------------------------------------ reject-call
\* call.status = 'rejected' set on the table's entry before the write is
\* awaited
RejectCall_MarksEntry(s, callId) ==
  /\ s \in activeUsers
  /\ RateGate(s, "reject-call")
  /\ nEvents' = nEvents + 1
  /\ IF ~checkRateLimit(s, "reject-call")
       THEN /\ inbox' = CallError(inbox, s, "Rate limit exceeded")
            /\ UNCHANGED <<tasks, callInfo>>
     ELSE IF callId = NoCall \/ callId \notin LiveIds
       THEN UNCHANGED <<inbox, tasks, callInfo>>
     ELSE IF ~IsCallee(callInfo[callId], SockUser(s))
       THEN UNCHANGED <<inbox, tasks, callInfo>>
     ELSE /\ callInfo' = [callInfo EXCEPT ![callId].status = "rejected"]
          /\ Spawn([Task("reject", s) EXCEPT !.callId = callId,
                                             !.upd.status = "rejected",
                                             !.upd.endTime = now])
          /\ UNCHANGED inbox
  /\ UNCHANGED <<now, activeUsers, closed, activeCalls, users, calls,
                 nextCallId,
                 callLog, orphaned>>

\* the handler up to its await: the entry is read, nothing is written to it
RejectCall(s, callId) ==
  /\ s \in activeUsers
  /\ RateGate(s, "reject-call")
  /\ nEvents' = nEvents + 1
  /\ IF ~checkRateLimit(s, "reject-call")
       THEN /\ inbox' = CallError(inbox, s, "Rate limit exceeded")
            /\ UNCHANGED tasks
     ELSE IF callId = NoCall \/ callId \notin LiveIds
       THEN UNCHANGED <<inbox, tasks>>
     ELSE IF ~IsCallee(callInfo[callId], SockUser(s))
       THEN UNCHANGED <<inbox, tasks>>
     ELSE /\ Spawn([Task("reject", s) EXCEPT !.callId = callId,
                                             !.upd.status = "rejected",
                                             !.upd.endTime = now])
          /\ UNCHANGED inbox
  /\ UNCHANGED <<now, activeUsers, closed, activeCalls, callInfo, users, calls,
                 nextCallId,
                 callLog, orphaned>>

\* resumed after Call.findByIdAndUpdate(callId, {status: 'rejected', endTime})
RejectFinish(t) ==
  /\ BagIn(t, tasks)
  /\ t.kind = "reject"
  /\ t.pc = "ready"
  /\ LET call == callInfo[t.callId]
         i1 == EmitTo(inbox, {call.caller.socketId}, Msg("call-rejected", call.callId, ""))
     IN inbox' = broadcastToAdmins(i1, activeUsers, Msg("call-ended", call.callId, "rejected"))
  /\ activeCalls' = RemoveFromSeq(activeCalls, t.callId)
  /\ Finish(t)
  /\ UNCHANGED <<now, nEvents, activeUsers, closed, callInfo, rateLimiter,
                 users, calls, nextCallId, callLog, orphaned, audit, rlLog>>

\* --------------------------------------------------------------- end-call
\* the party check left out
IsParty_Anyone(call, u) == TRUE

\* only the caller or the callee may end the call
IsParty(call, u) == u \in {call.caller.id, call.callee.id}

\* the division by 1000 left out: a duration in milliseconds
Duration_Millis(endTime, startTime) == endTime - startTime

\* Math.floor((endTime - call.startTime) / 1000)
Duration(endTime, startTime) == (endTime - startTime) \div 1000

EndCall(s, callId) ==
  /\ s \in activeUsers
  /\ RateGate(s, "end-call")
  /\ nEvents' = nEvents + 1
  /\ IF ~checkRateLimit(s, "end-call")
       THEN /\ inbox' = CallError(inbox, s, "Rate limit exceeded")
            /\ UNCHANGED tasks
     ELSE IF callId = NoCall \/ callId \notin LiveIds
       THEN UNCHANGED <<inbox, tasks>>
     ELSE IF ~IsParty(callInfo[callId], SockUser(s))
       THEN /\ inbox' = CallError(inbox, s, "Not authorized to end this call")
            /\ UNCHANGED tasks
     ELSE /\ Spawn([Task("end", s) EXCEPT
                      !.callId = callId,
                      !.upd.status = "ended",
                      !.upd.endTime = now,
                      !.upd.duration = Duration(now, callInfo[callId].startTime)])
          /\ UNCHANGED inbox
  /\ UNCHANGED <<now, activeUsers, closed, activeCalls, callInfo, users, calls,
                 nextCallId,
                 callLog, orphaned>>

\* resumed after Call.findByIdAndUpdate(callId, {status: 'ended', endTime, duration})
EndFinish(t) ==
  /\ BagIn(t, tasks)
  /\ t.kind = "end"
  /\ t.pc = "ready"
  /\ LET call == callInfo[t.callId]
         i1 == EmitTo(inbox, {call.caller.socketId}, Msg("call-ended", call.callId, ""))
         i2 == EmitTo(i1, {call.callee.socketId}, Msg("call-ended", call.callId, ""))
     IN inbox' = broadcastToAdmins(i2, activeUsers, Msg("call-ended", call.callId, "duration"))
  /\ activeCalls' = RemoveFromSeq(activeCalls, t.callId)
  /\ Finish(t)
  /\ UNCHANGED <<now, nEvents, activeUsers, closed, callInfo, rateLimiter,
                 users, calls, nextCallId, callLog, orphaned, audit, rlLog>>

\* ------------------------------------------------------------- disconnect
\* a session the cleanup loop acts on
Involves(call, s) == call.caller.socketId = s \/ call.callee.socketId = s

\* the handler up to its first await: unregister, issue the presence write
Disconnect(s) ==
  /\ s \in activeUsers
  /\ activeUsers' = activeUsers \ {s}
  /\ closed' = closed \cup {s}
  /\ Spawn(Task("disconnect", s))
  /\ orphaned' = orphaned \cup {<<c, s>> : c \in {d \in LiveIds : Involves(callInfo[d], s)}}
  /\ nEvents' = nEvents + 1
  /\ UNCHANGED <<now, activeCalls, callInfo, rateLimiter, users, calls, nextCallId,
                 inbox, callLog, audit, rlLog>>

OtherSocket(call, s) ==
  IF call.caller.socketId = s THEN call.callee.socketId ELSE call.caller.socketId

\* the entries the Map iterator has still to visit: those after position pos
\* in insertion order
ToVisit(live, pos, s) ==
  {c \in SeqToSet(live) : callInfo[c].ord > pos /\ Involves(callInfo[c], s)}

FirstToVisit(live, pos, s) ==
  CHOOSE c \in ToVisit(live, pos, s) :
    \A d \in ToVisit(live, pos, s) : callInfo[c].ord <= callInfo[d].ord

\* the offline notices at the end of the disconnect handler
OfflineNotices(inb, s) ==
  LET u == SockUser(s)
      i1 == IF NotifyRole(u) # Null
              THEN broadcastToRole(inb, activeUsers, NotifyRole(u),
                                   Msg("user-disconnected", NoCall, u))
              ELSE inb
  IN broadcastToAdmins(i1, activeUsers, Msg("user-status-update", NoCall, "offline"))

\* resumed after the presence write (phase 1) or after the durable write of a
\* session (phase 2, which first deletes that session): the loop runs on to
\* the next session of this socket, or to its end
DisconnectResume(t) ==
  /\ BagIn(t, tasks)
  /\ t.kind = "disconnect"
  /\ t.pc = "ready"
  /\ LET live == IF t.phase = 2 THEN RemoveFromSeq(activeCalls, t.callId) ELSE activeCalls
     IN /\ activeCalls' = live
        /\ IF ToVisit(live, t.pos, t.s) # {}
             THEN LET c == FirstToVisit(live, t.pos, t.s) IN
                    /\ inbox' = EmitTo(inbox, {OtherSocket(callInfo[c], t.s)},
                                       Msg("call-ended", c, "disconnect"))
                    /\ Park(t, [t EXCEPT !.phase = 2, !.pc = "db", !.callId = c,
                                          !.pos = callInfo[c].ord,
                                          !.upd.status = "ended",
                                          !.upd.endTime = now])
             ELSE /\ inbox' = OfflineNotices(inbox, t.s)
                  /\ Finish(t)
  /\ UNCHANGED <<now, nEvents, activeUsers, closed, callInfo, rateLimiter,
                 users, calls, nextCallId, callLog, orphaned, audit, rlLog>>

\* ---------------------------------------------------- get-available-users
\* an event with a list as its payload
ListMsg(ev, list) == [ev |-> ev, callId |-> NoCall, x |-> "", list |-> list]

\* the log entry of an event of a kind that has no gate: it is handled
Handled(s, ev) ==
  LET key == RateKey(s, ev)
      old == IF key \in DOMAIN rlLog THEN rlLog[key] ELSE <<>>
      e == [t |-> now, ok |-> TRUE, fresh |-> key \notin DOMAIN rlLog]
  IN [k \in DOMAIN rlLog \cup {key} |-> IF k = key THEN Append(old, e) ELSE rlLog[k]]

\* the users of a role that are registered, by socket
getOnlineUsersByRole(reg, role) == RoleSockets(reg, role)

GetAvailableUsers(s) ==
  /\ s \in activeUsers
  /\ RateGate(s, "get-available-users")
  /\ nEvents' = nEvents + 1
  /\ IF ~checkRateLimit(s, "get-available-users")
       THEN inbox' = EmitTo(inbox, {s}, Msg("error", NoCall, "Rate limit exceeded"))
     ELSE IF NotifyRole(SockUser(s)) = Null
       THEN UNCHANGED inbox
     ELSE inbox' = EmitTo(inbox, {s},
                          ListMsg("available-users",
                                  getOnlineUsersByRole(activeUsers, NotifyRole(SockUser(s)))))
  /\ UNCHANGED <<now, activeUsers, closed, activeCalls, callInfo, users, calls,
                 nextCallId, tasks, callLog, orphaned>>

\* ------------------------------------------------- offer, answer, ice-candidate
\* io.emit in the place of io.to(target).emit: the event goes to every socket
Relay_ToEveryone(s, ev, target) ==
  /\ s \in activeUsers
  /\ nEvents' = nEvents + 1
  /\ inbox' = IF target = Null THEN inbox ELSE EmitTo(inbox, Sockets, Msg(ev, NoCall, s))
  /\ rlLog' = IF audit THEN Handled(s, ev) ELSE rlLog
  /\ UNCHANGED <<now, activeUsers, closed, activeCalls, callInfo, rateLimiter, users,
                 calls, nextCallId, tasks, callLog, orphaned, audit>>

\* a signaling event is passed on to the room `target`, with the sender's
\* socket id; a target that is not a non-empty string is dropped
Relay(s, ev, target) ==
  /\ s \in activeUsers
  /\ nEvents' = nEvents + 1
  /\ inbox' = IF target = Null THEN inbox ELSE EmitTo(inbox, {target}, Msg(ev, NoCall, s))
  /\ rlLog' = IF audit THEN Handled(s, ev) ELSE rlLog
  /\ UNCHANGED <<now, activeUsers, closed, activeCalls, callInfo, rateLimiter, users,
                 calls, nextCallId, tasks, callLog, orphaned, audit>>

Offer(s, target) == Relay(s, "offer", target)

Answer(s, target) == Relay(s, "answer", target)

IceCandidate(s, target) == Relay(s, "ice-candidate", target)

\* ------------------------------------------------------- get-active-calls
\* the role check left out
IsAdmin_AnyRole(s) == TRUE

\* user.role === 'admin'
IsAdmin(s) == Role(SockUser(s)) = "admin"

\* Array.from(activeCalls.values())
ActiveCallsArray == [i \in 1 .. Len(activeCalls) |-> callInfo[activeCalls[i]]]

GetActiveCalls(s) ==
  /\ s \in activeUsers
  /\ nEvents' = nEvents + 1
  /\ inbox' = IF IsAdmin(s)
                THEN EmitTo(inbox, {s}, ListMsg("active-calls", ActiveCallsArray))
                ELSE inbox
  /\ rlLog' = IF audit THEN Handled(s, "get-active-calls") ELSE rlLog
  /\ UNCHANGED <<now, activeUsers, closed, activeCalls, callInfo, rateLimiter, users,
                 calls, nextCallId, tasks, callLog, orphaned, audit>>

\* --------------------------------------------------------- authentication
\* the token of a handshake: none, one the verifier refuses, the valid one
Tokens == {"", "badtoken", "validtoken"}

\* every token taken for the valid one
verifyToken_AnyToken(token) == "someUserId"

verifyToken(token) == IF token = "validtoken" THEN "someUserId" ELSE Null

\* the middleware calls next() without an error: there is a token, it
\* resolves to a user id, and User.findById finds that user (known)
Authenticated(token, known) ==
  /\ token # ""
  /\ verifyToken(token) # Null
  /\ known

\* a connection attempt: the middleware, then io.on('connection') if it
\* passed; a refused socket is closed
Handshake(s, token, known) ==
  /\ s \notin activeUsers
  /\ s \notin closed
  /\ IF Authenticated(token, known)
       THEN Connect(s)
       ELSE /\ closed' = closed \cup {s}
            /\ nEvents' = nEvents + 1
            /\ UNCHANGED <<now, activeUsers, activeCalls, callInfo, rateLimiter, users,
                           calls, nextCallId, tasks, inbox, callLog, orphaned, audit, rlLog>>

\* ---------------------------------------------------------- specification
\* the calleeId a client may send
CalleeIds == Users \cup {BadId}

\* the callId a client may send: one handed out so far, or none
CallIds == 0 .. (nextCallId - 1)

\* what the environment may do: a client event of one of the sockets `socks`,
\* or the passing of dt milliseconds
ClientEvent(socks) ==
  \/ \E s \in socks : Connect(s)
  \/ \E s \in socks : Disconnect(s)
  \/ \E s \in socks, calleeId \in CalleeIds : InitiateCall(s, calleeId)
  \/ \E s \in socks, callId \in CallIds : AcceptCall(s, callId)
  \/ \E s \in socks, callId \in CallIds : RejectCall(s, callId)
  \/ \E s \in socks, callId \in CallIds : EndCall(s, callId)

StoreStep ==
  \E t \in BagToSet(tasks) :
    \/ DbSetOnline(t)
    \/ DbSetOffline(t)
    \/ DbFindCallee(t)
    \/ DbSaveCall(t)
    \/ DbUpdateCall(t)

ResumeStep ==
  \E t \in BagToSet(tasks) :
    \/ InitiateCheck(t)
    \/ InitiateFinish(t)
    \/ AcceptFinish(t)
    \/ RejectFinish(t)
    \/ EndFinish(t)
    \/ DisconnectResume(t)

\* one socket per user, any event
MainSockets == {"s1", "s2", "s3"}

Next ==
  \/ nEvents < MaxEvents /\ ClientEvent(MainSockets)
  \/ nEvents < MaxEvents /\ Tick(TickMs)
  \/ StoreStep
  \/ ResumeStep

Spec == Init /\ [][Next]_vars

\* the employee and the doctor alone, for longer runs
PairSockets == {"s1", "s2"}

NextPair ==
  \/ nEvents < MaxEventsPair /\ ClientEvent(PairSockets)
  \/ nEvents < MaxEventsPair /\ Tick(TickMs)
  \/ StoreStep
  \/ ResumeStep

SpecPair == Init /\ [][NextPair]_vars

\* all three users, the employee calling the doctor: the third party's events
NextTrio ==
  \/ nEvents < MaxEventsTrio /\ \E s \in MainSockets : Connect(s)
  \/ nEvents < MaxEventsTrio /\ InitiateCall("s1", "D")
  \/ nEvents < MaxEventsTrio /\ \E s \in MainSockets, callId \in CallIds : AcceptCall(s, callId)
  \/ nEvents < MaxEventsTrio /\ \E s \in MainSockets, callId \in CallIds : RejectCall(s, callId)
  \/ nEvents < MaxEventsTrio /\ \E s \in MainSockets, callId \in CallIds : EndCall(s, callId)
  \/ \E t \in BagToSet(tasks) :
       \/ DbSetOnline(t)
       \/ DbFindCallee(t)
       \/ DbSaveCall(t)
       \/ DbUpdateCall(t)
  \/ \E t \in BagToSet(tasks) :
       \/ InitiateCheck(t)
       \/ InitiateFinish(t)
       \/ AcceptFinish(t)
       \/ RejectFinish(t)
       \/ EndFinish(t)

SpecTrio == Init /\ [][NextTrio]_vars

\* one socket sending initiate-call events that end at the validation or at
\* the self-call screen, with the rate limiter's decisions logged
InitRL ==
  /\ now = 0
  /\ nEvents = 0
  /\ activeUsers = {}
  /\ closed = {}
  /\ activeCalls = <<>>
  /\ callInfo = <<>>
  /\ rateLimiter = <<>>
  /\ users = [u \in Users |-> [isOnline |-> FALSE, socketId |-> Null]]
  /\ calls = <<>>
  /\ nextCallId = 1
  /\ tasks = EmptyBag
  /\ inbox = [s \in Sockets |-> <<>>]
  /\ callLog = <<>>
  /\ orphaned = {}
  /\ audit = TRUE
  /\ rlLog = <<>>

NextRL ==
  \/ nEvents < MaxEventsRL /\ Connect("s1")
  \/ nEvents < MaxEventsRL /\ \E calleeId \in {BadId, "A"} : InitiateCall("s1", calleeId)
  \/ nEvents < MaxEventsRL /\ Tick(TickMsRL)
  \/ \E t \in BagToSet(tasks) : DbSetOnline(t)

SpecRL == InitRL /\ [][NextRL]_vars

\* the signaling relay and the listing events of one socket, with every
\* event logged
NextGate ==
  \/ nEvents < MaxEventsGate /\ \E s \in PairSockets : Connect(s)
  \/ nEvents < MaxEventsGate /\ Offer("s1", "s2")
  \/ nEvents < MaxEventsGate /\ Answer("s1", "s2")
  \/ nEvents < MaxEventsGate /\ \E target \in {"s2", Null} : IceCandidate("s1", target)
  \/ nEvents < MaxEventsGate /\ GetAvailableUsers("s1")
  \/ nEvents < MaxEventsGate /\ Tick(TickMs)
  \/ \E t \in BagToSet(tasks) : DbSetOnline(t)

SpecGate == InitRL /\ [][NextGate]_vars

\* the administrator listing the live calls while the employee calls the
\* doctor and ends the call
NextAdmin ==
  \/ nEvents < MaxEventsAdmin /\ \E s \in MainSockets : Connect(s)
  \/ nEvents < MaxEventsAdmin /\ InitiateCall("s1", "D")
  \/ nEvents < MaxEventsAdmin /\ \E callId \in CallIds : EndCall("s1", callId)
  \/ nEvents < MaxEventsAdmin /\ \E s \in MainSockets : GetActiveCalls(s)
  \/ \E t \in BagToSet(tasks) :
       \/ DbSetOnline(t)
       \/ DbFindCallee(t)
       \/ DbSaveCall(t)
       \/ DbUpdateCall(t)
  \/ \E t \in BagToSet(tasks) :
       \/ InitiateCheck(t)
       \/ InitiateFinish(t)
       \/ EndFinish(t)

SpecAdmin == InitRL /\ [][NextAdmin]_vars

\* connection attempts with any credential, and disconnects
NextAuth ==
  \/ nEvents < MaxEventsAuth
       /\ \E s \in MainSockets, token \in Tokens, known \in BOOLEAN : Handshake(s, token, known)
  \/ nEvents < MaxEventsAuth /\ \E s \in MainSockets : Disconnect(s)
  \/ \E t \in BagToSet(tasks) :
       \/ DbSetOnline(t)
       \/ DbSetOffline(t)
  \/ \E t \in BagToSet(tasks) : DisconnectResume(t)

SpecAuth == Init /\ [][NextAuth]_vars

\* the client of socket s has been sent event ev of call c: the only way it
\* learns the id of a call
Knows(s, ev, c) == \E i \in 1 .. Len(inbox[s]) : inbox[s][i].ev = ev /\ inbox[s][i].callId = c

\* socket s has sent an event of kind ev that reached the rate limiter
Sent(s, ev) == RateKey(s, ev) \in DOMAIN rateLimiter

\* one call from start to end: the employee and the doctor connect, the
\* employee sends one initiate-call, the doctor one accept-call for a call
\* it was rung for, the employee one end-call for a call it saw accepted
NextRun ==
  \/ nEvents < MaxEventsRun /\ \E s \in PairSockets : Connect(s)
  \/ nEvents < MaxEventsRun /\ ~Sent("s1", "initiate-call") /\ InitiateCall("s1", "D")
  \/ nEvents < MaxEventsRun /\ ~Sent("s2", "accept-call")
       /\ \E callId \in CallIds : Knows("s2", "incoming-call", callId) /\ AcceptCall("s2", callId)
  \/ nEvents < MaxEventsRun /\ ~Sent("s1", "end-call")
       /\ \E callId \in CallIds : Knows("s1", "call-accepted", callId) /\ EndCall("s1", callId)
  \/ nEvents < MaxEventsRun /\ Tick(TickMsRL)
  \/ \E t \in BagToSet(tasks) :
       \/ DbSetOnline(t)
       \/ DbFindCallee(t)
       \/ DbSaveCall(t)
       \/ DbUpdateCall(t)
  \/ \E t \in BagToSet(tasks) :
       \/ InitiateCheck(t)
       \/ InitiateFinish(t)
       \/ AcceptFinish(t)
       \/ EndFinish(t)

SpecRun == Init /\ [][NextRun]_vars

\* the employee calls the doctor, and the writes of accept-call, reject-call,
\* end-call and disconnect may fail
NextFail ==
  \/ nEvents < MaxEventsFail /\ \E s \in PairSockets : Connect(s)
  \/ nEvents < MaxEventsFail /\ InitiateCall("s1", "D")
  \/ nEvents < MaxEventsFail /\ \E callId \in CallIds : AcceptCall("s2", callId)
  \/ nEvents < MaxEventsFail /\ \E callId \in CallIds : RejectCall("s2", callId)
  \/ nEvents < MaxEventsFail /\ \E callId \in CallIds : EndCall("s1", callId)
  \/ nEvents < MaxEventsFail /\ \E s \in PairSockets : Disconnect(s)
  \/ \E t \in BagToSet(tasks) :
       \/ DbSetOnline(t)
       \/ DbSetOffline(t)
       \/ DbSetOfflineFails(t)
       \/ DbFindCallee(t)
       \/ DbSaveCall(t)
       \/ DbUpdateCall(t)
       \/ DbUpdateCallFails(t)
  \/ \E t \in BagToSet(tasks) :
       \/ InitiateCheck(t)
       \/ InitiateFinish(t)
       \/ AcceptFinish(t)
       \/ RejectFinish(t)
       \/ EndFinish(t)
       \/ DisconnectResume(t)
       \/ HandlerCatch(t)

SpecFail == Init /\ [][NextFail]_vars

\* two sockets sending events of two kinds that end at the validation of
\* their payload, faster than the rate limiter allows
NextLimit ==
  \/ nEvents < MaxEventsLimit /\ \E s \in PairSockets : Connect(s)
  \/ nEvents < MaxEventsLimit /\ \E s \in PairSockets : InitiateCall(s, BadId)
  \/ nEvents < MaxEventsLimit /\ RejectCall("s1", NoCall)
  \/ nEvents < MaxEventsLimit /\ Tick(TickMsRL)
  \/ \E t \in BagToSet(tasks) : DbSetOnline(t)

SpecLimit == Init /\ [][NextLimit]_vars

\* the ways out of one call: the employee calls the doctor, the doctor may
\* accept; then the caller sends one end-call and the callee one end-call and
\* one reject-call, in any order, each for a call whose id it was sent
NextEnd ==
  \/ nEvents < MaxEventsEnd /\ \E s \in PairSockets : Connect(s)
  \/ nEvents < MaxEventsEnd /\ ~Sent("s1", "initiate-call") /\ InitiateCall("s1", "D")
  \/ nEvents < MaxEventsEnd /\ ~Sent("s2", "accept-call")
       /\ \E callId \in CallIds : Knows("s2", "incoming-call", callId) /\ AcceptCall("s2", callId)
  \/ nEvents < MaxEventsEnd /\ ~Sent("s1", "end-call")
       /\ \E callId \in CallIds : Knows("s1", "call-accepted", callId) /\ EndCall("s1", callId)
  \/ nEvents < MaxEventsEnd /\ ~Sent("s2", "end-call")
       /\ \E callId \in CallIds : Knows("s2", "incoming-call", callId) /\ EndCall("s2", callId)
  \/ nEvents < MaxEventsEnd /\ ~Sent("s2", "reject-call")
       /\ \E callId \in CallIds : Knows("s2", "incoming-call", callId) /\ RejectCall("s2", callId)
  \/ \E t \in BagToSet(tasks) :
       \/ DbSetOnline(t)
       \/ DbFindCallee(t)
       \/ DbSaveCall(t)
       \/ DbUpdateCall(t)
  \/ \E t \in BagToSet(tasks) :
       \/ InitiateCheck(t)
       \/ InitiateFinish(t)
       \/ AcceptFinish(t)
       \/ RejectFinish(t)
       \/ EndFinish(t)

SpecEnd == Init /\ [][NextEnd]_vars

\* the doctor with two sockets, the employee with one
MultiSockets == {"s1", "s2", "s4"}

\* connects and disconnects alone
NextMulti ==
  \/ nEvents < MaxEventsMulti /\ \E s \in MultiSockets : Connect(s)
  \/ nEvents < MaxEventsMulti /\ \E s \in MultiSockets : Disconnect(s)
  \/ \E t \in BagToSet(tasks) :
       \/ DbSetOnline(t)
       \/ DbSetOffline(t)
  \/ \E t \in BagToSet(tasks) : DisconnectResume(t)

SpecMulti == Init /\ [][NextMulti]_vars

\* the life of the employee's calls to the doctor in the live table: every
\* handler that reads or writes the table, and the clock
NextTable ==
  \/ nEvents < MaxEventsTable /\ \E s \in PairSockets : Connect(s)
  \/ nEvents < MaxEventsTable /\ \E s \in PairSockets : Disconnect(s)
  \/ nEvents < MaxEventsTable /\ InitiateCall("s1", "D")
  \/ nEvents < MaxEventsTable /\ \E callId \in CallIds : AcceptCall("s2", callId)
  \/ nEvents < MaxEventsTable /\ \E callId \in CallIds : RejectCall("s2", callId)
  \/ nEvents < MaxEventsTable /\ \E s \in PairSockets, callId \in CallIds : EndCall(s, callId)
  \/ nEvents < MaxEventsTable /\ Tick(TickMsRL)
  \/ StoreStep
  \/ ResumeStep

SpecTable == Init /\ [][NextTable]_vars

\* ------------------------------------------------------------------ claims
\* the two users of a session, as an unordered pair
Pair(call) == {call.caller.id, call.callee.id}

LiveBetween(u, v, status) ==
  \E c \in LiveIds : Pair(callInfo[c]) = {u, v} /\ callInfo[c].status = status

CountMsg(q, ev, c) == Cardinality({i \in 1 .. Len(q) : q[i].ev = ev /\ q[i].callId = c})

HasError(q, text) == \E i \in 1 .. Len(q) : q[i] = Msg("call-error", NoCall, text)

\* this step sends the call-error `text` to socket s (delivered if s is still
\* connected) and nothing to anybody else
Answered(s, text) ==
  inbox' = [x \in Sockets |->
              IF x = s /\ s \in activeUsers
                THEN Append(inbox[x], Msg("call-error", NoCall, text))
                ELSE inbox[x]]

\* this step changes neither the live table nor the Call collection, and
\* leaves no handler suspended that was not suspended before it
NoCallEffect ==
  /\ activeCalls' = activeCalls
  /\ callInfo' = callInfo
  /\ calls' = calls
  /\ nextCallId' = nextCallId
  /\ \A t \in BagToSet(tasks') : BagIn(t, tasks) /\ CopiesIn(t, tasks') <= CopiesIn(t, tasks)

\* C1: in every reachable state the live table holds at most one session
\* (status initiated or accepted) for any unordered pair of users.
C1_OneSessionPerPair ==
  \A c1, c2 \in LiveIds :
    c1 # c2 => Pair(callInfo[c1]) # Pair(callInfo[c2])

\* C2: when the handler of an initiate-call screens for duplicates while the
\* table holds an initiated session between sender and callee (either
\* direction), the sender alone gets the duplicate-call error and the table,
\* the Call collection and the other inboxes stay as they are.
C2_DuplicateAnswered ==
  [][\A t \in BagToSet(tasks) :
       (InitiateCheck(t) /\ LiveBetween(SockUser(t.s), t.calleeId, "initiated"))
         => (Answered(t.s, "Call already in progress") /\ NoCallEffect)]_vars

\* C3: when the handler of an initiate-call screens for conflicts while the
\* table holds an accepted session between sender and callee, the initiate is
\* refused: the handler ends with a call-error to the sender and creates no
\* session.
C3_AcceptedBlocksInitiate ==
  [][\A t \in BagToSet(tasks) :
       (InitiateCheck(t) /\ LiveBetween(SockUser(t.s), t.calleeId, "accepted"))
         => (/\ NoCallEffect
             /\ \E text \in {"Call already in progress", "User is offline"} :
                  Answered(t.s, text))]_vars

\* C4: an initiate-call whose calleeId is the sender's own user id is answered
\* with a call-error to the sender alone (the self-call error, unless the rate
\* limiter dropped the event), suspends no handler, creates no session and
\* writes nothing to the Call collection; and no session in the table has its
\* caller as its callee.
C4_SelfCallFails ==
  /\ [](\A c \in LiveIds : callInfo[c].caller.id # callInfo[c].callee.id)
  /\ [][\A s \in Sockets :
          InitiateCall(s, SockUser(s))
            => (/\ NoCallEffect
                /\ tasks' = tasks
                /\ Answered(s, IF checkRateLimit(s, "initiate-call")
                                 THEN "Cannot call yourself"
                                 ELSE "Rate limit exceeded"))]_vars

C4_Witness == \E s \in Sockets : HasError(inbox[s], "Cannot call yourself")

\* C5: accept-call or reject-call for a live session by a user who is not its
\* callee changes neither the session, nor the table, nor the Call
\* collection, suspends no handler and sends nothing to any socket but the
\* sender's; the sender gets the not-authorized error (accept-call) or
\* nothing (reject-call), or the rate-limit error if the event was dropped.
C5_OnlyCalleeAnswers ==
  [][\A s \in Sockets, c \in LiveIds :
       callInfo[c].callee.id # SockUser(s) =>
         /\ AcceptCall(s, c) =>
              (/\ NoCallEffect
               /\ tasks' = tasks
               /\ Answered(s, IF checkRateLimit(s, "accept-call")
                                THEN "Not authorized to accept this call"
                                ELSE "Rate limit exceeded"))
         /\ RejectCall(s, c) =>
              (/\ NoCallEffect
               /\ tasks' = tasks
               /\ IF checkRateLimit(s, "reject-call")
                    THEN inbox' = inbox
                    ELSE Answered(s, "Rate limit exceeded"))]_vars

C5_Witness ==
  /\ \E s \in Sockets : HasError(inbox[s], "Not authorized to accept this call")
  /\ \E c \in LiveIds, s \in activeUsers :
       /\ callInfo[c].callee.id # SockUser(s)
       /\ RateKey(s, "reject-call") \in DOMAIN rateLimiter

\* C6: end-call for a live session by a user who is neither its caller nor its
\* callee is answered with the not-authorized error to the sender alone (the
\* rate-limit error if the event was dropped); the session stays in the table
\* as it is, nothing is written to the Call collection and nothing is sent to
\* the parties.
C6_ThirdPartyCannotEnd ==
  [][\A s \in Sockets, c \in LiveIds :
       (EndCall(s, c) /\ SockUser(s) \notin Pair(callInfo[c]))
         => (/\ NoCallEffect
             /\ tasks' = tasks
             /\ Answered(s, IF checkRateLimit(s, "end-call")
                              THEN "Not authorized to end this call"
                              ELSE "Rate limit exceeded"))]_vars

C6_Witness ==
  \E s \in Sockets, c \in LiveIds :
    /\ HasError(inbox[s], "Not authorized to end this call")
    /\ SockUser(s) \notin Pair(callInfo[c])

\* the task end-call suspends: the write of status ended, the end time and
\* the duration d
EndTask(s, c, d) ==
  [Task("end", s) EXCEPT !.callId = c,
                         !.upd = [status |-> "ended", endTime |-> now, duration |-> d]]

\* d is the number of whole seconds in ms milliseconds
WholeSeconds(d, ms) == d >= 0 /\ d * 1000 <= ms /\ ms < (d + 1) * 1000

\* C7: end-call by the caller or the callee of a live session (status
\* initiated or accepted) issues the write of status ended with the duration
\* in whole seconds from the session's start to now, never negative; the
\* store records that status and duration; and the resumed handler sends
\* call-ended to both parties' sockets and removes the session from the table.
C7_EndCallEnds ==
  [][/\ \A s \in Sockets, c \in LiveIds :
          (/\ EndCall(s, c)
           /\ checkRateLimit(s, "end-call")
           /\ SockUser(s) \in Pair(callInfo[c]))
            => (/\ callInfo[c].status \in {"initiated", "accepted"}
                /\ \E d \in 0 .. now :
                     /\ WholeSeconds(d, now - callInfo[c].startTime)
                     /\ tasks' = tasks (+) SetToBag({EndTask(s, c, d)}))
     /\ \A t \in BagToSet(tasks) :
          (DbUpdateCall(t) /\ t.kind = "end")
            => (/\ calls'[t.callId].status = "ended"
                /\ calls'[t.callId].duration = t.upd.duration
                /\ calls'[t.callId].duration >= 0)
     /\ \A t \in BagToSet(tasks) :
          EndFinish(t)
            => (/\ t.callId \notin SeqToSet(activeCalls')
                /\ \A x \in {callInfo[t.callId].caller.socketId,
                             callInfo[t.callId].callee.socketId} :
                     x \in activeUsers =>
                       CountMsg(inbox'[x], "call-ended", t.callId)
                         = CountMsg(inbox[x], "call-ended", t.callId) + 1)]_vars

\* an end-call has run to its end on a call that lasted a second or more
C7_Witness ==
  \E c \in DOMAIN calls :
    /\ calls[c].status = "ended"
    /\ calls[c].duration >= 1
    /\ c \in DOMAIN callInfo
    /\ c \notin LiveIds
    /\ \E x \in Sockets : CountMsg(inbox[x], "call-ended", c) >= 1

EverRecorded(c, statuses) ==
  c \in DOMAIN callLog /\ \E i \in 1 .. Len(callLog[c]) : callLog[c][i] \in statuses

\* C8: a session that was in the live table when the socket of its caller or
\* callee disconnected is, once every handler has run to its end and every
\* store write has completed, out of the table, and its durable record has
\* been given status ended.
C8_DisconnectEndsSession ==
  tasks = EmptyBag =>
    \A o \in orphaned : o[1] \notin LiveIds /\ EverRecorded(o[1], {"ended"})

\* when socket s disconnected, session c was live and the socket of its other
\* party is x
Survivor(c, s) == OtherSocket(callInfo[c], s)

\* C9: the surviving party of a session that was live when the other party's
\* socket disconnected gets exactly one call-ended for that call: never more
\* than one, and one once every handler has run to its end.
C9_ExactlyOneCallEnded ==
  \A o \in orphaned :
    (Survivor(o[1], o[2]) \in activeUsers /\ Survivor(o[1], o[2]) # o[2])
      => /\ CountMsg(inbox[Survivor(o[1], o[2])], "call-ended", o[1]) <= 1
         /\ tasks = EmptyBag
              => CountMsg(inbox[Survivor(o[1], o[2])], "call-ended", o[1]) = 1

\* the decisions the rate limiter took on the initiate-call events of socket s
InitiateLog(s) ==
  IF RateKey(s, "initiate-call") \in DOMAIN rlLog
    THEN rlLog[RateKey(s, "initiate-call")]
    ELSE <<>>

\* entries i .. i+5 of the log are six events within a span of windowMs
SixWithinWindow(log, i) ==
  i + 5 <= Len(log) /\ log[i + 5].t - log[i].t <= windowMs

Passed(log, i) == Cardinality({j \in i .. (i + 5) : log[j].ok})

\* C10: of any six initiate-call events of a socket that arrive within
\* 1000 ms, whatever came before them, exactly five pass the rate limiter and
\* one is refused.
C10_FivePassOfSix ==
  \A s \in Sockets :
    \A i \in 1 .. Len(InitiateLog(s)) :
      SixWithinWindow(InitiateLog(s), i) => Passed(InitiateLog(s), i) = maxCalls

\* C10, amended: the same, when the first of the six opens a window of the
\* limiter (the socket's first initiate-call, or one that arrives more than
\* 1000 ms after the start of the window before).
C10_FivePassOfSixFromWindowStart ==
  \A s \in Sockets :
    \A i \in 1 .. Len(InitiateLog(s)) :
      (SixWithinWindow(InitiateLog(s), i) /\ InitiateLog(s)[i].fresh)
        => Passed(InitiateLog(s), i) = maxCalls

\* six events within the span, the first opening a window after earlier
\* events of the socket, the sixth refused
C10_Witness ==
  \E s \in Sockets :
    \E i \in 2 .. Len(InitiateLog(s)) :
      /\ SixWithinWindow(InitiateLog(s), i)
      /\ InitiateLog(s)[i].fresh
      /\ ~InitiateLog(s)[i + 5].ok

\* C11: every kind of inbound event is gated by the rate limiter: of six
\* events of one kind from one socket that arrive within 1000 ms, the first
\* opening the window, the sixth is not handled; and an event the limiter
\* refuses has no effect but the rate-limit notice to its sender.
C11_EveryEventGated ==
  /\ [](\A key \in DOMAIN rlLog :
          \A i \in 1 .. Len(rlLog[key]) :
            (SixWithinWindow(rlLog[key], i) /\ rlLog[key][i].fresh)
              => ~rlLog[key][i + 5].ok)
  /\ [][\A s \in Sockets :
          (GetAvailableUsers(s) /\ ~checkRateLimit(s, "get-available-users"))
            => (/\ NoCallEffect
                /\ tasks' = tasks
                /\ inbox' = [x \in Sockets |->
                               IF x = s /\ s \in activeUsers
                                 THEN Append(inbox[x],
                                             Msg("error", NoCall, "Rate limit exceeded"))
                                 ELSE inbox[x]])]_vars

\* the sockets of user u that are in the registry
Registered(u) == {x \in activeUsers : SockUser(x) = u}

\* C12: whenever a session is added to the live table, the callee socket
\* stored in it is in the registry at that moment and is a socket of the
\* callee; and an initiate-call screened while the callee has no registered
\* socket is answered as callee-offline and changes nothing.
C12_CalleeConnectedAtCreation ==
  [][\A t \in BagToSet(tasks) :
       /\ InitiateFinish(t)
            => (/\ t.callee.socketId \in activeUsers
                /\ SockUser(t.callee.socketId) = t.calleeId)
       /\ (InitiateCheck(t) /\ Registered(t.calleeId) = {})
            => (Answered(t.s, "User is offline") /\ NoCallEffect)]_vars

\* the disconnect handler of socket s has run to its end
DisconnectDone(s) ==
  /\ s \in closed
  /\ s \notin activeUsers
  /\ \A t \in BagToSet(tasks) : ~(t.kind = "disconnect" /\ t.s = s)

\* C13: once the disconnect handler of a socket has completed, no session in
\* the live table has that socket as its caller's or its callee's.
C13_NoSessionAfterDisconnect ==
  \A s \in Sockets :
    DisconnectDone(s) => \A c \in LiveIds : ~Involves(callInfo[c], s)

\* in the inbox q, an event ev2 of call c comes after a call-ended of c with
\* reason disconnect
AfterDisconnectEnd(q, ev2, c) ==
  \E i, j \in 1 .. Len(q) :
    /\ i < j
    /\ q[i] = Msg("call-ended", c, "disconnect")
    /\ q[j].ev = ev2
    /\ q[j].callId = c

\* the durable record of call c has been set to ended by a disconnect
\* cleanup: its update names no duration, that of end-call does
EndedByDisconnect(c) ==
  /\ c \in DOMAIN calls
  /\ calls[c].status = "ended"
  /\ calls[c].duration = -1

\* C14: when a disconnect cleanup and an accept-call touch the same call, no
\* call-accepted is delivered for the call after its call-ended with reason
\* disconnect, and the durable record is not set to accepted after the
\* cleanup has set it to ended.
C14_NoAcceptAfterDisconnectEnd ==
  /\ [](\A x \in Sockets, c \in DOMAIN callInfo :
          ~AfterDisconnectEnd(inbox[x], "call-accepted", c))
  /\ [][\A t \in BagToSet(tasks) :
          (DbUpdateCall(t) /\ t.kind = "accept") => ~EndedByDisconnect(t.callId)]_vars

\* the changes of status the state machine permits
Transitions ==
  {<<"initiated", "accepted">>, <<"accepted", "ended">>,
   <<"initiated", "rejected">>, <<"initiated", "ended">>}

\* C15: for every call, each status recorded in the durable store either
\* repeats the one before it or follows it by a permitted transition (so
\* nothing follows rejected or ended, and rejected never follows accepted),
\* and the status of the session in the live table changes only by a
\* permitted transition.
C15_MonotonicStatus ==
  /\ [](\A c \in DOMAIN callLog :
          /\ callLog[c][1] = "initiated"
          /\ \A i \in 1 .. (Len(callLog[c]) - 1) :
               \/ callLog[c][i + 1] = callLog[c][i]
               \/ <<callLog[c][i], callLog[c][i + 1]>> \in Transitions)
  /\ [][\A c \in DOMAIN callInfo :
          \/ callInfo'[c].status = callInfo[c].status
          \/ <<callInfo[c].status, callInfo'[c].status>> \in Transitions]_vars

\* C16: an accept-call by the callee for a session whose status is already
\* accepted is refused: the sender gets a call-error, no store write is
\* issued, and nothing is sent to anybody else.
C16_AcceptOnlyInitiated ==
  [][\A s \in Sockets, c \in LiveIds :
       (/\ AcceptCall(s, c)
        /\ checkRateLimit(s, "accept-call")
        /\ IsCallee(callInfo[c], SockUser(s))
        /\ callInfo[c].status = "accepted")
         => (/\ NoCallEffect
             /\ tasks' = tasks
             /\ \E text \in {"Invalid transition", "Call already accepted",
                             "Call not found", "Not authorized to accept this call"} :
                  Answered(s, text))]_vars

\* this step delivers exactly one call-error to socket s and nothing to any
\* other socket
OneErrorTo(s) ==
  /\ Len(inbox'[s]) = Len(inbox[s]) + 1
  /\ inbox'[s][Len(inbox'[s])].ev = "call-error"
  /\ \A x \in Sockets \ {s} : inbox'[x] = inbox[x]

\* call id c is one handed out, of a session that is not in the table
UnknownCall(c) == c # NoCall /\ c \notin LiveIds

\* C17: an accept-call, reject-call or end-call that passes the rate limiter
\* and fails because the call is not in the table, or because the sender is
\* not permitted to act on it, sends exactly one error to the sender and
\* nothing to any other socket.
C17_FailureSurfacedToSender ==
  [][\A s \in Sockets, c \in CallIds :
       /\ (/\ AcceptCall(s, c)
           /\ checkRateLimit(s, "accept-call")
           /\ (UnknownCall(c) \/ (c \in LiveIds /\ ~IsCallee(callInfo[c], SockUser(s)))))
            => OneErrorTo(s)
       /\ (/\ RejectCall(s, c)
           /\ checkRateLimit(s, "reject-call")
           /\ (UnknownCall(c) \/ (c \in LiveIds /\ ~IsCallee(callInfo[c], SockUser(s)))))
            => OneErrorTo(s)
       /\ (/\ EndCall(s, c)
           /\ checkRateLimit(s, "end-call")
           /\ (UnknownCall(c) \/ (c \in LiveIds /\ ~IsParty(callInfo[c], SockUser(s)))))
            => OneErrorTo(s)]_vars

\* the disconnect handler of socket s is executing
Disconnecting(s) == \E t \in BagToSet(tasks) : t.kind = "disconnect" /\ t.s = s

\* C18: outside the execution of a socket's disconnect handler, no presence
\* record shows isOnline = true with that socket while the socket is not in
\* the registry.
C18_PresenceNeverStale ==
  \A u \in Users :
    (/\ users[u].isOnline
     /\ users[u].socketId # Null
     /\ users[u].socketId \notin activeUsers)
      => Disconnecting(users[u].socketId)

\* socket s has been registered: io.on('connection') sent it your-info
WasRegistered(s) == inbox[s] # <<>> /\ inbox[s][1].ev = "your-info"

\* C19: a connection attempt with no token, with a token the verifier
\* refuses, or for a user id that is not found leaves the registry, the
\* presence store, the suspended handlers and every inbox as they are; a
\* socket that is closed and not registered never enters the registry; and
\* only sockets that were registered are in the registry, have a handler
\* running or appear in a presence record.
C19_OnlyAuthenticatedRegister ==
  /\ [][\A s \in Sockets, token \in Tokens, known \in BOOLEAN :
          (Handshake(s, token, known) /\ (token = "" \/ token # "validtoken" \/ ~known))
            => (/\ activeUsers' = activeUsers
                /\ users' = users
                /\ tasks' = tasks
                /\ inbox' = inbox
                /\ s \in closed')]_vars
  /\ [][\A s \in Sockets :
          (s \in closed /\ s \notin activeUsers) => s \notin activeUsers']_vars
  /\ [](/\ \A s \in activeUsers : WasRegistered(s)
        /\ \A t \in BagToSet(tasks) : WasRegistered(t.s)
        /\ \A u \in Users : users[u].socketId # Null => WasRegistered(users[u].socketId))

\* one socket was refused, another was registered and its presence written
C19_Witness ==
  /\ \E s \in closed : inbox[s] = <<>>
  /\ \E x \in activeUsers :
       users[SockUser(x)].isOnline /\ users[SockUser(x)].socketId = x

\* C20: get-active-calls sends the sender, if its role is admin, one
\* active-calls event whose list is exactly the sessions of the live table,
\* and nothing otherwise; it sends nothing to anybody else and changes no
\* state.
C20_ActiveCallsForAdminOnly ==
  [][\A s \in Sockets :
       GetActiveCalls(s)
         => (/\ NoCallEffect
             /\ tasks' = tasks
             /\ users' = users
             /\ activeUsers' = activeUsers
             /\ rateLimiter' = rateLimiter
             /\ \A x \in Sockets \ {s} : inbox'[x] = inbox[x]
             /\ IF Role(SockUser(s)) = "admin"
                  THEN /\ Len(inbox'[s]) = Len(inbox[s]) + 1
                       /\ LET m == inbox'[s][Len(inbox'[s])]
                          IN /\ m.ev = "active-calls"
                             /\ Len(m.list) = Cardinality(LiveIds)
                             /\ {m.list[i] : i \in 1 .. Len(m.list)} = LiveCalls
                  ELSE inbox'[s] = inbox[s])]_vars

\* the administrator has listed a live call, and the employee has asked too
C20_Witness ==
  /\ \E s \in activeUsers :
       /\ Role(SockUser(s)) = "admin"
       /\ \E i \in 1 .. Len(inbox[s]) :
            inbox[s][i].ev = "active-calls" /\ Len(inbox[s][i].list) >= 1
  /\ \E s \in activeUsers :
       /\ Role(SockUser(s)) # "admin"
       /\ RateKey(s, "get-active-calls") \in DOMAIN rlLog
       /\ \A i \in 1 .. Len(inbox[s]) : inbox[s][i].ev # "active-calls"

\* the number of copies of message m in the inbox q
CountOf(q, m) == Cardinality({i \in 1 .. Len(q) : q[i] = m})

\* this step delivers m once to every registered socket whose role is admin,
\* and to no other socket
AdminDelivery(m) ==
  \A x \in Sockets :
    CountOf(inbox'[x], m) - CountOf(inbox[x], m) =
      IF x \in activeUsers /\ Role(SockUser(x)) = "admin" THEN 1 ELSE 0

\* C21: each broadcast to the admins (new-call, call-status-update, the
\* call-ended of reject-call and of end-call, the offline user-status-update
\* of disconnect) is delivered once to every socket that is in the registry
\* with role admin at that moment, and to no socket of another role and to
\* no socket that is not in the registry.
C21_AdminBroadcastToRegisteredAdmins ==
  [][\A t \in BagToSet(tasks) :
       /\ InitiateFinish(t) => AdminDelivery(Msg("new-call", t.callId, "initiated"))
       /\ AcceptFinish(t)
            => AdminDelivery(Msg("call-status-update", t.callId, callInfo[t.callId].status))
       /\ RejectFinish(t) => AdminDelivery(Msg("call-ended", t.callId, "rejected"))
       /\ EndFinish(t) => AdminDelivery(Msg("call-ended", t.callId, "duration"))
       /\ (DisconnectResume(t) /\ tasks' = tasks (-) SetToBag({t}))
            => AdminDelivery(Msg("user-status-update", NoCall, "offline"))]_vars

\* a registered admin has been told of a new call between two registered
\* users of other roles
C21_Witness ==
  \E x \in activeUsers :
    /\ Role(SockUser(x)) = "admin"
    /\ \E i \in 1 .. Len(inbox[x]) : inbox[x][i].ev = "new-call"
    /\ \E y \in activeUsers : Role(SockUser(y)) # "admin"

\* the kinds of signaling event
RelayKinds == {"offer", "answer", "ice-candidate"}

\* C22: an offer, answer or ice-candidate event is passed on only if its
\* target is a socket in the registry; it then appends one message of the
\* same kind, carrying the sender's socket id, to the target's inbox and to
\* no other; and it leaves the live table, the registry, the rate limiter,
\* the presence records, the call records and the suspended handlers as
\* they are.
C22_RelayIsPure ==
  [][\A s \in Sockets, target \in Sockets \cup {Null}, ev \in RelayKinds :
       Relay(s, ev, target)
         => (/\ NoCallEffect
             /\ tasks' = tasks
             /\ users' = users
             /\ activeUsers' = activeUsers
             /\ rateLimiter' = rateLimiter
             /\ inbox' = [x \in Sockets |->
                            IF x = target /\ target \in activeUsers
                              THEN Append(inbox[x], Msg(ev, NoCall, s))
                              ELSE inbox[x]])]_vars

\* an offer has reached its registered target with the sender's socket id,
\* and an answer sent to a target that was not registered has reached nobody
C22_Witness ==
  /\ \E i \in 1 .. Len(inbox["s2"]) : inbox["s2"][i] = Msg("offer", NoCall, "s1")
  /\ RateKey("s1", "answer") \in DOMAIN rlLog
  /\ \A x \in Sockets : \A i \in 1 .. Len(inbox[x]) : inbox[x][i].ev # "answer"

\* the kinds of the events of call c in the inbox q, in the order of arrival
CallEvents(q, c) ==
  LET sel == SelectSeq(q, LAMBDA m : m.callId = c
                                      /\ m.ev \in {"incoming-call", "call-accepted",
                                                   "call-rejected", "call-ended"})
  IN [i \in 1 .. Len(sel) |-> sel[i].ev]

IsPrefix(p, q) == Len(p) <= Len(q) /\ \A i \in 1 .. Len(p) : p[i] = q[i]

\* C23: in the run of one call from start to end, the doctor is sent
\* incoming-call, then both are sent call-accepted, then both are sent
\* call-ended, each once and in this order; and when the end-call has been
\* sent and every handler has run to its end, both have all of them, the
\* session is not in the live table and the call record has status ended
\* with a duration of at least 0.
C23_CallRunInOrder ==
  \A c \in DOMAIN callInfo :
    /\ IsPrefix(CallEvents(inbox["s2"], c), <<"incoming-call", "call-accepted", "call-ended">>)
    /\ IsPrefix(CallEvents(inbox["s1"], c), <<"call-accepted", "call-ended">>)
    /\ Knows("s1", "call-accepted", c) => Knows("s2", "incoming-call", c)
    /\ \A x \in PairSockets :
         Knows(x, "call-ended", c)
           => Knows("s1", "call-accepted", c) /\ Knows("s2", "call-accepted", c)
    /\ (Sent("s1", "end-call") /\ tasks = EmptyBag)
         => (/\ CallEvents(inbox["s2"], c) = <<"incoming-call", "call-accepted", "call-ended">>
             /\ CallEvents(inbox["s1"], c) = <<"call-accepted", "call-ended">>
             /\ c \notin LiveIds
             /\ c \in DOMAIN calls
             /\ calls[c].status = "ended"
             /\ calls[c].duration >= 0)

\* the run is over: the end-call has been handled to its end, one second or
\* more after the session was created
C23_Witness ==
  /\ Sent("s1", "end-call")
  /\ tasks = EmptyBag
  /\ \E c \in DOMAIN calls : calls[c].status = "ended" /\ calls[c].duration >= 1

\* what the connect of socket s sends to socket x, reg being the registry
\* with s in it
ConnectNotices(s, x, reg) ==
  (IF x = s THEN <<Msg("your-info", NoCall, SockUser(s))>> ELSE <<>>)
  \o (IF x \in reg /\ Role(SockUser(x)) = NotifyRole(SockUser(s))
        THEN <<Msg("user-connected", NoCall, SockUser(s))>> ELSE <<>>)
  \o (IF x \in reg /\ Role(SockUser(x)) = "admin"
        THEN <<Msg("user-status-update", NoCall, "online")>> ELSE <<>>)

\* the events of a registered socket are handled
HandlersInstalled(s) ==
  /\ ENABLED InitiateCall(s, BadId)
  /\ ENABLED AcceptCall(s, NoCall)
  /\ ENABLED RejectCall(s, NoCall)
  /\ ENABLED EndCall(s, NoCall)
  /\ ENABLED GetAvailableUsers(s)
  /\ ENABLED GetActiveCalls(s)
  /\ ENABLED Offer(s, Null)
  /\ ENABLED Disconnect(s)

ToldIfRegistered(x, ev, c) ==
  x \in activeUsers' => \E i \in 1 .. Len(inbox'[x]) : inbox'[x][i].ev = ev /\ inbox'[x][i].callId = c

\* C25: when the durable write of accept-call, reject-call or end-call has
\* failed and the handler ends, the transition has taken effect in memory
\* (the session of the accept-call has status accepted, the session of the
\* reject-call or end-call is not in the live table) and the notification
\* has been sent: call-accepted or call-ended to the caller and the callee,
\* call-rejected to the caller.
C25_FailedWriteDoesNotBlockSignaling ==
  [][\A t \in BagToSet(tasks) :
       (HandlerCatch(t) /\ t.kind \in {"accept", "reject", "end"})
         => LET call == callInfo[t.callId] IN
              /\ t.kind = "accept"
                   => (/\ call.status = "accepted"
                       /\ ToldIfRegistered(call.caller.socketId, "call-accepted", t.callId)
                       /\ ToldIfRegistered(call.callee.socketId, "call-accepted", t.callId))
              /\ t.kind = "reject"
                   => (/\ t.callId \notin SeqToSet(activeCalls')
                       /\ ToldIfRegistered(call.caller.socketId, "call-rejected", t.callId))
              /\ t.kind = "end"
                   => (/\ t.callId \notin SeqToSet(activeCalls')
                       /\ ToldIfRegistered(call.caller.socketId, "call-ended", t.callId)
                       /\ ToldIfRegistered(call.callee.socketId, "call-ended", t.callId))]_vars

\* C26: when a write issued by the disconnect handler of a socket has failed
\* and the handler ends, no session that was live at the disconnect with that
\* socket as a party's is in the live table, the other party of every such
\* session has been sent call-ended with reason disconnect if
\* it is registered, and every registered socket of the complementary role
\* has been sent user-disconnected and every registered admin the offline
\* user-status-update.
C26_CleanupDespiteFailedWrite ==
  [][\A t \in BagToSet(tasks) :
       (HandlerCatch(t) /\ t.kind = "disconnect")
         => (/\ \A c \in DOMAIN callInfo :
                  <<c, t.s>> \in orphaned => c \notin SeqToSet(activeCalls')
             /\ \A c \in DOMAIN callInfo :
                  (<<c, t.s>> \in orphaned /\ Survivor(c, t.s) \in activeUsers)
                    => CountOf(inbox'[Survivor(c, t.s)], Msg("call-ended", c, "disconnect")) >= 1
             /\ \A x \in activeUsers :
                  /\ Role(SockUser(x)) = NotifyRole(SockUser(t.s))
                       => CountOf(inbox'[x], Msg("user-disconnected", NoCall, SockUser(t.s))) >= 1
                  /\ Role(SockUser(x)) = "admin"
                       => CountOf(inbox'[x], Msg("user-status-update", NoCall, "offline")) >= 1)]_vars

\* no handler is suspended and no store call is pending
Quiescent == tasks = EmptyBag

\* C27: in every quiescent state, each call that has a record and is not in
\* the live table has a record with status rejected or ended, and each call
\* in the live table has a record with the status of its table entry, which
\* is initiated or accepted.
C27_QuiescentStoreMatchesTable ==
  Quiescent
    => \A c \in DOMAIN calls :
         /\ c \notin LiveIds => calls[c].status \in {"rejected", "ended"}
         /\ c \in LiveIds
              => (/\ calls[c].status = callInfo[c].status
                  /\ callInfo[c].status \in {"initiated", "accepted"})

\* the kinds of event the rate limiter is asked about
GatedKinds ==
  {"initiate-call", "accept-call", "reject-call", "end-call", "get-available-users"}

\* this step is a refusal by the rate limiter: the notice to socket s, and
\* nothing else
Refused(s) ==
  /\ rateLimiter' = rateLimiter
  /\ NoCallEffect
  /\ tasks' = tasks
  /\ users' = users
  /\ activeUsers' = activeUsers
  /\ Answered(s, "Rate limit exceeded")

\* this step leaves the record of every key but that of (s, ev) as it is,
\* and with it the answer the limiter would give for that key
OtherKeysUntouched(s, ev) ==
  \A s2 \in Sockets, ev2 \in GatedKinds :
    RateKey(s2, ev2) # RateKey(s, ev)
      => (/\ RateKey(s2, ev2) \in DOMAIN rateLimiter' <=> RateKey(s2, ev2) \in DOMAIN rateLimiter
          /\ RateRecord(s2, ev2)' = RateRecord(s2, ev2)
          /\ checkRateLimit(s2, ev2)' = checkRateLimit(s2, ev2))

\* C28: an event the rate limiter refuses leaves the limiter's records, the
\* live table, the registry, the presence records, the call records and the
\* suspended handlers as they are and sends the notice to its sender alone;
\* an event of one socket and kind changes neither the record nor the
\* limiter's answer for any other socket or kind; and no record ever has a
\* count above 5.
C28_RefusalChangesNothing ==
  /\ [][\A s \in Sockets :
          /\ (InitiateCall(s, BadId) /\ ~checkRateLimit(s, "initiate-call")) => Refused(s)
          /\ (RejectCall(s, NoCall) /\ ~checkRateLimit(s, "reject-call")) => Refused(s)
          /\ InitiateCall(s, BadId) => OtherKeysUntouched(s, "initiate-call")
          /\ RejectCall(s, NoCall) => OtherKeysUntouched(s, "reject-call")]_vars
  /\ [](\A key \in DOMAIN rateLimiter : rateLimiter[key].count <= maxCalls)

\* position of the first copy of m in q, 0 if there is none
FirstPos(q, m) ==
  IF \E i \in 1 .. Len(q) : q[i] = m
    THEN CHOOSE i \in 1 .. Len(q) : q[i] = m /\ \A j \in 1 .. (i - 1) : q[j] # m
    ELSE 0

\* the employee's socket was refused an initiate-call; the doctor connected
\* after that and had an initiate-call of its own handled
C28_Witness ==
  /\ FirstPos(inbox["s1"], Msg("call-error", NoCall, "Rate limit exceeded")) > 0
  /\ FirstPos(inbox["s1"], Msg("call-error", NoCall, "Rate limit exceeded"))
       < FirstPos(inbox["s1"], Msg("user-connected", NoCall, "D"))
  /\ HasError(inbox["s2"], "Invalid callee ID")
  /\ rateLimiter[RateKey("s1", "initiate-call")].count = maxCalls

\* the terminal notifications of call c in the inbox q that end-call and
\* reject-call send
TerminalNotices(q, c) ==
  CountOf(q, Msg("call-ended", c, "")) + CountOf(q, Msg("call-rejected", c, ""))

\* C29: for every call, the caller's socket and the callee's socket are each
\* sent at most one call-ended or call-rejected by the end-call and
\* reject-call handlers, however the end-call of the caller, the end-call of
\* the callee and the reject-call of the callee are interleaved.
C29_OneTerminalNoticePerParty ==
  \A c \in DOMAIN callInfo :
    /\ TerminalNotices(inbox[callInfo[c].caller.socketId], c) <= 1
    /\ TerminalNotices(inbox[callInfo[c].callee.socketId], c) <= 1

\* C30: in every quiescent state a user who has a socket in the registry is
\* shown online by the presence record, with a socket of that user that is
\* in the registry; so a user with two registered sockets of which the older
\* disconnects is still shown online, with the socket that remains.
C30_OnlineWhileSocketRemains ==
  Quiescent
    => \A u \in Users :
         Registered(u) # {}
           => (users[u].isOnline /\ users[u].socketId \in Registered(u))

\* C31: every session in the live table has status initiated or accepted
\* and is stored under its own call id; no step gives a callInfo object the
\* status rejected or ended, or changes its call id, its caller, its callee
\* or its start time; and a session enters the table under its own id, with
\* status initiated.
C31_TableHoldsLiveSessionsOnly ==
  /\ [](\A c \in LiveIds :
          /\ c \in DOMAIN callInfo
          /\ callInfo[c].callId = c
          /\ callInfo[c].status \in {"initiated", "accepted"})
  /\ [][/\ \A c \in DOMAIN callInfo :
             /\ c \in DOMAIN callInfo'
             /\ callInfo'[c].callId = callInfo[c].callId
             /\ callInfo'[c].caller = callInfo[c].caller
             /\ callInfo'[c].callee = callInfo[c].callee
             /\ callInfo'[c].startTime = callInfo[c].startTime
             /\ callInfo'[c].status \in {"initiated", "accepted"}
        /\ \A c \in SeqToSet(activeCalls') \ LiveIds :
             /\ callInfo'[c].callId = c
             /\ callInfo'[c].status = "initiated"]_vars

\* a session is in the table with status accepted while a reject-call for
\* it awaits its write
C31_Witness ==
  \E c \in LiveIds :
    /\ callInfo[c].status = "accepted"
    /\ \E t \in BagToSet(tasks) : t.kind = "reject" /\ t.callId = c

====
